---- MODULE Spec2Model ----
(***************************************************************************)
(* A model of the oceanpub publication loader in its two variants:         *)
(*   "dev"  : src/dev/oceanpub.py  (append-only, ON CONFLICT DO NOTHING)   *)
(*   "root" : src/oceanpub.py      (upsert, ON CONFLICT DO UPDATE)         *)
(*                                                                         *)
(* Text is modelled as a sequence of characters, each character a one-     *)
(* character string; a character outside ASCII is written by its code      *)
(* point ("U2013" is the en dash, "U2019" the right single quote).         *)
(***************************************************************************)
EXTENDS Integers, Sequences, FiniteSets, TLC

(***************************************************************************)
(* Character classes of Python's re module, on the modelled alphabet.      *)
(***************************************************************************)
Letters == {"a", "b", "h", "t", "p", "A", "J"}
DigitChars == {"0", "2"}
Alphabet == Letters \cup DigitChars \cup
            {" ", ".", ",", "-", "<", ">", "%", "(", ")", "'", "U2013", "U2019"}

\* \s
IsSpace(c) == c = " "
\* \w : letters, digits and the underscore
IsWord(c) == c \in Letters \cup DigitChars
\* \d
IsDigit(c) == c \in DigitChars
\* [A-Z]
IsUpper(c) == c \in {"A", "J"}

\* str.lower()
Lower(s) == [i \in 1..Len(s) |-> CASE s[i] = "A" -> "a" [] s[i] = "J" -> "j" [] OTHER -> s[i]]

\* str.strip()
RECURSIVE LStrip(_)
LStrip(s) == IF s # <<>> /\ IsSpace(Head(s)) THEN LStrip(Tail(s)) ELSE s

RECURSIVE RStrip(_)
RStrip(s) == IF s # <<>> /\ IsSpace(s[Len(s)]) THEN RStrip(SubSeq(s, 1, Len(s) - 1)) ELSE s

Strip(s) == RStrip(LStrip(s))

\* re.sub(r'<.*?>', '', s), and with pct the alternative |\% as well: a "<" is
\* removed together with everything up to the nearest ">" after it.
RECURSIVE StripTags(_, _)
StripTags(s, pct) ==
  IF s = <<>> THEN <<>>
  ELSE IF Head(s) = "<" /\ \E j \in 2..Len(s) : s[j] = ">"
  THEN LET j == CHOOSE j \in 2..Len(s) : s[j] = ">" /\ \A k \in 2..(j - 1) : s[k] # ">"
       IN StripTags(SubSeq(s, j + 1, Len(s)), pct)
  ELSE IF pct /\ Head(s) = "%" THEN StripTags(Tail(s), pct)
  ELSE <<Head(s)>> \o StripTags(Tail(s), pct)

\* re.sub(r'\s+', ' ', s): every run of whitespace becomes one space.
RECURSIVE CollapseSpaces(_)
CollapseSpaces(s) ==
  IF Len(s) < 2 THEN [i \in 1..Len(s) |-> IF IsSpace(s[i]) THEN " " ELSE s[i]]
  ELSE IF IsSpace(s[1]) /\ IsSpace(s[2]) THEN CollapseSpaces(Tail(s))
  ELSE <<IF IsSpace(s[1]) THEN " " ELSE s[1]>> \o CollapseSpaces(Tail(s))

\* Position i of s lies in a whitespace run that touches an ASCII hyphen: the
\* part of a match of \s*(-)\s* that is not the hyphen itself.
BesideHyphen(s, i) ==
  /\ IsSpace(s[i])
  /\ \E j \in 1..Len(s) :
       /\ s[j] = "-"
       /\ \A k \in (IF i < j THEN i ELSE j + 1)..(IF i < j THEN j - 1 ELSE i) : IsSpace(s[k])

SelectIdx(s, Keep(_)) ==
  LET F[i \in 0..Len(s)] ==
        IF i = 0 THEN <<>> ELSE IF Keep(i) THEN Append(F[i - 1], s[i]) ELSE F[i - 1]
  IN F[Len(s)]

\* re.sub(r'\\u2010|\u2013|\u2014|\s*(-)\s*', '', s)
DropHyphens(s) ==
  SelectIdx(s, LAMBDA i : ~(s[i] \in {"-", "U2013"} \/ BesideHyphen(s, i)))

\* re.sub(r'\u2010|\u2013|\u2014|\s*(-)\s*', "-", s)
AsciiHyphens(s) ==
  LET t == [i \in 1..Len(s) |-> IF s[i] = "U2013" THEN "-" ELSE s[i]]
  IN SelectIdx(t, LAMBDA i : ~BesideHyphen(s, i))

\* re.sub(r'\\u2018|\u2019|\u201C|\u201D|', '', s)
DropCurlyQuotes(s) == SelectSeq(s, LAMBDA c : c # "U2019")

\* re.sub(r'[^\w\s]...', '', s)
DropPunct(s) == SelectSeq(s, LAMBDA c : IsWord(c) \/ IsSpace(c))

\* clean_title of src/dev/oceanpub.py
clean_title_dev(text) ==
  Strip(Lower(DropPunct(DropCurlyQuotes(DropHyphens(CollapseSpaces(StripTags(text, TRUE)))))))

\* clean_title of src/oceanpub.py
clean_title_root(text) == Lower(DropPunct(text))

\* format_title_for_db of src/dev/oceanpub.py: the title as stored. html.unescape
\* changes only text holding "&", which the alphabet leaves out.
format_title_for_db(title) ==
  IF title = <<>> THEN <<>>
  ELSE LET h == AsciiHyphens(CollapseSpaces(StripTags(title, FALSE)))
           q == [i \in 1..Len(h) |-> IF h[i] = "U2019" THEN "'" ELSE h[i]]
           E[i \in 0..Len(q)] ==
             IF i = 0 THEN <<>>
             ELSE IF q[i] = "'" THEN E[i - 1] \o <<"'", "'">> ELSE Append(E[i - 1], q[i])
       IN Strip(E[Len(q)])

(***************************************************************************)
(* extract_title of src/dev/oceanpub.py.  Both patterns end in             *)
(*     [.,]?\s*(.*?)(?:[。.]|,(?![^(]*\))\s*[A-Z])                         *)
(* which TailMatch follows from the position q where that part starts.     *)
(***************************************************************************)
\* (?![^(]*\)) fails at p: a ")" can be reached from p without passing a "(".
ParenAhead(s, p) ==
  \E j \in p..Len(s) : s[j] = ")" /\ \A k \in p..(j - 1) : s[k] # "("

\* The terminator matches at position e.
Terminator(s, e) ==
  /\ e \in 1..Len(s)
  /\ \/ s[e] = "."
     \/ /\ s[e] = ","
        /\ ~ParenAhead(s, e + 1)
        /\ \E u \in (e + 1)..Len(s) :
             IsUpper(s[u]) /\ \A k \in (e + 1)..(u - 1) : IsSpace(s[k])

\* The ways [.,]?\s*(.*?) can split before a terminator: o characters taken by
\* [.,]?, w by \s*, and the title running from q+o+w up to the terminator at e.
TailSplits(s, q) ==
  {x \in (0..1) \X (0..Len(s)) \X (1..Len(s)) :
     /\ x[1] = 1 => (q <= Len(s) /\ s[q] \in {".", ","})
     /\ \A k \in (q + x[1])..(q + x[1] + x[2] - 1) : k <= Len(s) /\ IsSpace(s[k])
     /\ x[3] >= q + x[1] + x[2]
     /\ Terminator(s, x[3])}

\* The split the backtracking matcher finds first: [.,]? and \s* are greedy,
\* (.*?) is lazy.
FirstSplit(s, q) ==
  CHOOSE x \in TailSplits(s, q) :
    \A y \in TailSplits(s, q) :
      \/ x[1] > y[1]
      \/ x[1] = y[1] /\ x[2] > y[2]
      \/ x[1] = y[1] /\ x[2] = y[2] /\ x[3] <= y[3]

TailMatch(s, q) == TailSplits(s, q) # {}

TailGroup(s, q) ==
  LET x == FirstSplit(s, q) IN SubSeq(s, q + x[1] + x[2], x[3] - 1)

Digits4(s, i) == i >= 1 /\ i + 3 <= Len(s) /\ \A k \in i..(i + 3) : IsDigit(s[k])

\* Where [^）\)]*[）\)] ends when the four digits start at i: the first ")" after them.
CloseAfter(s, i) ==
  IF \E j \in (i + 4)..Len(s) : s[j] = ")"
  THEN CHOOSE j \in (i + 4)..Len(s) : s[j] = ")" /\ \A k \in (i + 4)..(j - 1) : s[k] # ")"
  ELSE 0

\* Case 1 matches with its "(" at position i.
ParenYearAt(s, i) ==
  /\ s[i] = "("
  /\ Digits4(s, i + 1)
  /\ CloseAfter(s, i + 1) # 0
  /\ TailMatch(s, CloseAfter(s, i + 1) + 1)

\* Case 2 matches with its year at position i.
BareYearAt(s, i) == Digits4(s, i) /\ TailMatch(s, i + 4)

extract_title(paper_info) ==
  LET s == SelectSeq(paper_info, LAMBDA c : c \notin {"'", "U2019"})
      P1 == {i \in 1..Len(s) : ParenYearAt(s, i)}
      P2 == {i \in 1..Len(s) : BareYearAt(s, i)}
      Min(S) == CHOOSE i \in S : \A j \in S : i <= j
  IN IF P1 # {} THEN Strip(TailGroup(s, CloseAfter(s, Min(P1) + 1) + 1))
     ELSE IF P2 # {} THEN Strip(TailGroup(s, Min(P2) + 4))
     ELSE Strip(s)

\* "http" in paper_title
ContainsHttp(s) ==
  \E i \in 1..(Len(s) - 3) : SubSeq(s, i, i + 3) = <<"h", "t", "t", "p">>

(***************************************************************************)
(* Bounds of the model.                                                    *)
(***************************************************************************)
\* rows of one input file
MaxRows == 2
\* runs of process_csv against the same store
MaxRuns == 2
\* work items in one catalog reply (the request asks for at most 5)
MaxItems == 2
\* length of the strings clean_title is applied to on its own
MaxLen == 5

(***************************************************************************)
(* Program constants.                                                      *)
(***************************************************************************)
BATCH_SIZE == 5
RATE_LIMIT == 1
max_retries == 3

(***************************************************************************)
(* The input file.  Of the columns COLUMN_MAPPING names, the model keeps   *)
(* the institution and two of the twelve vessel/center flags; the citation *)
(* column is always there.  A CSV column is written "c_" + its field.      *)
(***************************************************************************)
COLUMN_MAPPING ==
  << <<"c_affiliationTW", "affiliationTW">>, <<"c_OR1", "OR1">>, <<"c_OR2", "OR2">> >>

Flags == {"OR1", "OR2"}
CsvColumns == {COLUMN_MAPPING[i][1] : i \in 1..Len(COLUMN_MAPPING)}
CsvOf(en) == "c_" \o en

\* The column sets a file may come with: every mapped column, or one flag alone.
FileColumns == {CsvColumns, {"c_OR1"}}

\* The citations the rows are drawn from:
\*   "(2020) Ab. J"   "a-b."   "2020 http. A"   "(2020). Ab"
PaperInfos ==
  { <<"(", "2", "0", "2", "0", ")", " ", "A", "b", ".", " ", "J">>,
    <<"a", "-", "b", ".">>,
    <<"2", "0", "2", "0", " ", "h", "t", "t", "p", ".", " ", "A">>,
    <<"(", "2", "0", "2", "0", ")", ".", " ", "A", "b">> }

\* A cell of a flag column, and of the institution column.
FlagCells == {0, 1}
Institutions == {"NTU"}

\* The rows a file with the columns cols can hold: the citation, the
\* institution cell (read only when its column is there) and one cell for each
\* flag column of the file.
RowsOf(cols) ==
  {[paper |-> p, inst |-> u, flag |-> f] :
     p \in PaperInfos,
     u \in IF "c_affiliationTW" \in cols THEN Institutions ELSE {""},
     f \in [cols \ {"c_affiliationTW"} -> FlagCells]}

\* bool(cell)
Truthy(v) == v # 0

(***************************************************************************)
(* The catalog.  A work item is a dict: keys says which of its keys are    *)
(* there; title is a list of strings, DOI a string, author a list of names.*)
(***************************************************************************)
\*   "Ab"   "a b"
CandidateTitles == { <<"A", "b">>, <<"a", " ", "b">> }
DOIs == {"10.1/a", "10.1/b"}
Authors == { <<>>, << [given |-> <<"G">>, family |-> <<"F">>] >> }

Items ==
  {[keys |-> {"title", "DOI", "author"}, title |-> t, DOI |-> d, author |-> a] :
     t \in {<<>>} \cup {<<x>> : x \in CandidateTitles}, d \in DOIs, a \in Authors}
  \cup
  {[keys |-> {"DOI", "author"}, title |-> <<>>, DOI |-> d, author |-> a] :
     d \in DOIs, a \in Authors}
  \cup
  {[keys |-> {"title", "author"}, title |-> <<x>>, DOI |-> "", author |-> a] :
     x \in CandidateTitles, a \in Authors}

\* The outcomes of requests.get: a status code, or the call raises.
Statuses == {200, 503, 404}

\* item.get('title', [''])
GetTitle(item) == IF "title" \in item.keys THEN item.title ELSE << <<>> >>
\* item.get('DOI', '')
GetDOI(item) == IF "DOI" \in item.keys THEN item.DOI ELSE ""
\* item.get('author', [{}])
GetAuthor(item) ==
  IF "author" \in item.keys THEN item.author ELSE << [given |-> <<>>, family |-> <<>>] >>

clean_title(v, text) == IF v = "dev" THEN clean_title_dev(text) ELSE clean_title_root(text)

(***************************************************************************)
(* The comparison fetch_crossref_info makes for one item of a 200 reply.   *)
(* item.get('title', [''])[0] raises IndexError on an empty title list.    *)
(***************************************************************************)
\* clean_title on the titles the model meets, computed once.
Variants == {"dev", "root"}
QueryTitles == PaperInfos \cup {extract_title(p) : p \in PaperInfos}
ItemTitles == CandidateTitles \cup {<<>>}
TitleKey == [v \in Variants |-> [t \in QueryTitles \cup ItemTitles |-> clean_title(v, t)]]

\* A resolver that trusts the catalog's ranking and takes the item it is
\* looking at, whatever its title.
TitleMatchesAny(v, paper_title, item) == TRUE

TitleMatches(v, paper_title, item) ==
  TitleKey[v][paper_title] = TitleKey[v][GetTitle(item)[1]]

(***************************************************************************)
(* transform_data.  A record is a dict: keys is the order in which its     *)
(* keys were first set, val its values.  The descriptive fields modelled   *)
(* are DOI, title, firstAuthor; the mapped columns of the row follow in    *)
(* the order of COLUMN_MAPPING, each as bool(cell); affiliationTW is then  *)
(* set to the institution text, at its place if it is a key already and at *)
(* the end otherwise.  author[0] raises IndexError on an empty author list.*)
(***************************************************************************)
Range(q) == {q[i] : i \in 1..Len(q)}

MappedFields(cols) ==
  LET F[i \in 0..Len(COLUMN_MAPPING)] ==
        IF i = 0 THEN <<>>
        ELSE IF COLUMN_MAPPING[i][1] \in cols THEN Append(F[i - 1], COLUMN_MAPPING[i][2])
        ELSE F[i - 1]
  IN F[Len(COLUMN_MAPPING)]

transform_data(v, row, cols, item) ==
  IF GetTitle(item) = <<>> \/ GetAuthor(item) = <<>>
  THEN [err |-> "IndexError", keys |-> <<>>, val |-> <<>>]
  ELSE LET mapped == MappedFields(cols)
           keys == <<"DOI", "title", "firstAuthor">> \o mapped \o
                   (IF "affiliationTW" \in Range(mapped) THEN <<>> ELSE <<"affiliationTW">>)
           first == GetAuthor(item)[1]
       IN [err |-> "",
           keys |-> keys,
           val |-> [k \in Range(keys) |->
                      CASE k = "DOI" -> GetDOI(item)
                        [] k = "title" -> IF v = "dev" THEN format_title_for_db(GetTitle(item)[1])
                                          ELSE GetTitle(item)[1]
                        [] k = "firstAuthor" -> first.given \o <<" ">> \o first.family
                        [] k = "affiliationTW" -> row.inst
                        [] OTHER -> Truthy(row.flag[CsvOf(k)])]]

(***************************************************************************)
(* The publications table: a set of rows, DOI its primary key.             *)
(***************************************************************************)
QueryColumns == <<"DOI", "title", "firstAuthor", "affiliationTW", "OR1", "OR2">>

StoredDOIs(st) == {r.DOI : r \in st}

\* An existence check that finds nothing (the SELECT compares against a
\* column that never equals the DOI).
doi_exists_never(st, doi) == FALSE

\* doi_exists
doi_exists(st, doi) == \E r \in st : r.DOI = doi

\* INSERT ... ON CONFLICT (DOI) DO NOTHING of one row
InsertOrSkip(st, r) == IF r.DOI \in StoredDOIs(st) THEN st ELSE st \cup {r}

(***************************************************************************)
(* insert_into_postgres of src/dev/oceanpub.py.  The values of every       *)
(* record are listed in the key order of the first record and bound to the *)
(* query's columns by position.  The statement is accepted only when that  *)
(* order is the query's: with a mapped column missing from the file there  *)
(* are fewer values than columns, and with the institution column missing  *)
(* its empty text comes last and lands in a BOOLEAN column.  A rejected    *)
(* statement raises and commits nothing.                                   *)
(* The result is [err |-> "" or the exception, store |-> the table after]. *)
(***************************************************************************)
insert_into_postgres_dev(st, records) ==
  IF records = <<>> THEN [err |-> "", store |-> st]
  ELSE LET cols0 == records[1].keys
           values == [i \in 1..Len(records) |->
                        [j \in 1..Len(cols0) |-> records[i].val[cols0[j]]]]
           RowOf(i) == [c \in Range(QueryColumns) |->
                          values[i][CHOOSE j \in 1..Len(QueryColumns) : QueryColumns[j] = c]]
           F[i \in 0..Len(records)] ==
             IF i = 0 THEN st ELSE InsertOrSkip(F[i - 1], RowOf(i))
       IN IF \E i \in 1..Len(records) : ~(Range(cols0) \subseteq DOMAIN records[i].val)
          THEN [err |-> "KeyError", store |-> st]
          ELSE IF cols0 # QueryColumns
          THEN [err |-> "DatabaseError", store |-> st]
          ELSE [err |-> "", store |-> F[Len(records)]]

(***************************************************************************)
(* insert_into_postgres of src/oceanpub.py.  Every value is read by key, a *)
(* flag the record lacks as False.  ON CONFLICT (DOI) DO UPDATE sets the   *)
(* descriptive columns of the stored row and leaves its flags; a statement *)
(* that proposes the same DOI twice is rejected (a command may not affect  *)
(* a row a second time), raises and commits nothing.                       *)
(***************************************************************************)
ValuesRow(d) ==
  [c \in Range(QueryColumns) |->
     IF c \in Flags THEN (IF c \in DOMAIN d.val THEN d.val[c] ELSE FALSE) ELSE d.val[c]]

\* A DO UPDATE that sets every column from the proposed row, flags included.
ExcludedAll(r, e) == e

\* DO UPDATE SET title = EXCLUDED.title, ... : the stored row r after the
\* proposed row e met it.
Excluded(r, e) ==
  [c \in Range(QueryColumns) |-> IF c \in Flags THEN r[c] ELSE e[c]]

Upsert(st, e) ==
  IF e.DOI \in StoredDOIs(st)
  THEN {IF r.DOI = e.DOI THEN Excluded(r, e) ELSE r : r \in st}
  ELSE st \cup {e}

insert_into_postgres_root(st, data) ==
  LET F[i \in 0..Len(data)] ==
        IF i = 0 THEN st ELSE Upsert(F[i - 1], ValuesRow(data[i]))
  IN IF \E i, j \in 1..Len(data) : i < j /\ data[i].val["DOI"] = data[j].val["DOI"]
     THEN [err |-> "DatabaseError", store |-> st]
     ELSE [err |-> "", store |-> F[Len(data)]]

(***************************************************************************)
(* The state.                                                              *)
(***************************************************************************)
VARIABLES
  variant,        \* which of the two programs runs: "dev" or "root"
  store,          \* the publications table
  runs,           \* runs of process_csv started so far
  pc,             \* where process_csv stands
  columns,        \* df.columns: the mapped columns of the file being read
  nrows,          \* len(df)
  idx,            \* rows the loop has taken from df.iterrows()
  row,            \* the row being processed
  paper_title,    \* the title handed to fetch_crossref_info
  attempt,        \* the loop index of fetch_crossref_info
  status,         \* the status of the last reply in this call, 0 before any
  nreq,           \* catalog requests issued by this call of fetch_crossref_info
  delayed,        \* time.sleep(RATE_LIMIT) has run since the last catalog request
  seen,           \* items of the reply compared so far
  crossref_data,  \* what fetch_crossref_info returned: <<>> for None, or <<item>>
  batch_data,     \* batch_data (dev) / processed_data (root)
  batch_size,     \* the BATCH_SIZE argument of process_csv
  halt,           \* the exception that ended the run, "" if none
  text,           \* a string given to clean_title on its own
  key             \* the successive results of clean_title on text

vars == <<variant, store, runs, pc, columns, nrows, idx, row, paper_title, attempt,
          status, nreq, delayed, seen, crossref_data, batch_data, batch_size, halt, text, key>>

NoRow == [paper |-> <<>>, inst |-> "", flag |-> <<>>]

\* The BATCH_SIZE argument: its default, or a size the bounded files reach.
SmallBatch == 2
BatchSizes == {SmallBatch, BATCH_SIZE}

Init ==
  /\ variant \in Variants
  /\ store = {}
  /\ runs = 0
  /\ pc = "idle"
  /\ columns = {}
  /\ nrows = 0
  /\ idx = 0
  /\ row = NoRow
  /\ paper_title = <<>>
  /\ attempt = 0
  /\ status = 0
  /\ nreq = 0
  /\ delayed = FALSE
  /\ seen = 0
  /\ crossref_data = <<>>
  /\ batch_data = <<>>
  /\ batch_size = BATCH_SIZE
  /\ halt = ""
  /\ text = <<>>
  /\ key = <<>>

(***************************************************************************)
(* The locals of fetch_crossref_info, gone when it returns or raises; the  *)
(* locals of one pass of the loop, dead once the row is finished; and the  *)
(* locals of process_csv, gone when the run ends.                          *)
(***************************************************************************)
Returned ==
  /\ attempt' = 0
  /\ seen' = 0

RowDone ==
  /\ row' = NoRow
  /\ paper_title' = <<>>
  /\ crossref_data' = <<>>
  /\ status' = 0
  /\ nreq' = 0

RunOver ==
  /\ Returned
  /\ RowDone
  /\ columns' = {}
  /\ nrows' = 0
  /\ idx' = 0
  /\ batch_data' = <<>>
  /\ batch_size' = BATCH_SIZE
  /\ delayed' = FALSE

\* An exception nothing catches ends the run.
Halt(e) ==
  /\ pc' = "halted"
  /\ halt' = e
  /\ RunOver

(***************************************************************************)
(* process_csv up to its loop: create_table (dev only; the table is there  *)
(* after the first run, and its connection may fail), then pd.read_csv.    *)
(***************************************************************************)
StartRun ==
  /\ pc \in {"idle", "done", "halted"}
  /\ runs < MaxRuns
  /\ runs' = runs + 1
  /\ \E connected \in BOOLEAN, cols \in FileColumns, n \in 0..MaxRows, b \in BatchSizes :
       IF variant = "dev" /\ ~connected
       THEN Halt("OperationalError")
       ELSE /\ pc' = "rows"
            /\ halt' = ""
            /\ columns' = cols
            /\ nrows' = n
            /\ batch_size' = IF variant = "dev" THEN b ELSE BATCH_SIZE
            /\ idx' = 0
            /\ batch_data' = <<>>
            /\ delayed' = FALSE
            /\ Returned
            /\ RowDone
  /\ UNCHANGED <<variant, store, text, key>>

(***************************************************************************)
(* The head of the loop body: the next row, and its title.  dev extracts   *)
(* the title and skips the row when it is empty or holds "http"; root      *)
(* takes the citation as it is.  Then fetch_crossref_info is entered.      *)
(***************************************************************************)
\* extract_title on the citations of the model, computed once.
ExtractedTitle == [p \in PaperInfos |-> extract_title(p)]

Skipped(title) == title = <<>> \/ ContainsHttp(title)

NextRow ==
  /\ pc = "rows"
  /\ idx < nrows
  /\ idx' = idx + 1
  /\ \E r \in RowsOf(columns) :
       LET title == IF variant = "dev" THEN ExtractedTitle[r.paper] ELSE r.paper
       IN IF variant = "dev" /\ Skipped(title)
          THEN pc' = "rows" /\ row' = NoRow /\ paper_title' = <<>>
          ELSE /\ pc' = IF variant = "dev" THEN "sleep" ELSE "get"
               /\ row' = r
               /\ paper_title' = title
  /\ UNCHANGED <<variant, store, runs, columns, nrows, attempt, status, nreq, seen, delayed,
                 crossref_data, batch_data, batch_size, halt, text, key>>

(***************************************************************************)
(* fetch_crossref_info of src/dev/oceanpub.py, one loop iteration in two   *)
(* steps: time.sleep(RATE_LIMIT), then the request and what follows it.    *)
(* fetch_crossref_info of src/oceanpub.py is the request step alone.       *)
(***************************************************************************)
Sleep ==
  /\ pc = "sleep"
  /\ delayed' = TRUE
  /\ pc' = "get"
  /\ UNCHANGED <<variant, store, runs, columns, nrows, idx, row, paper_title, attempt,
                 status, nreq, seen, crossref_data, batch_data, batch_size, halt, text, key>>

\* A retry loop that is off by one: a 503 on the last iteration still goes
\* round again.
fetch_crossref_info_again(v, att, st) ==
  IF st = 200 THEN [pc |-> "items", attempt |-> att]
  ELSE IF v = "dev" /\ st = 503
  THEN [pc |-> IF att + 1 <= max_retries THEN "sleep" ELSE "fetched", attempt |-> att + 1]
  ELSE [pc |-> "fetched", attempt |-> att]

\* What the call does with a reply of status st: [pc, attempt].  A 200 reply
\* goes on to its items; 503 sleeps 30 seconds and takes the next iteration if
\* there is one (dev only); anything else returns None.
fetch_crossref_info(v, att, st) ==
  IF st = 200 THEN [pc |-> "items", attempt |-> att]
  ELSE IF v = "dev" /\ st = 503
  THEN [pc |-> IF att + 1 < max_retries THEN "sleep" ELSE "fetched", attempt |-> att + 1]
  ELSE [pc |-> "fetched", attempt |-> att]

\* requests.get answers.
Reply ==
  /\ pc = "get"
  /\ delayed' = FALSE
  /\ nreq' = nreq + 1
  /\ seen' = 0
  /\ \E st \in Statuses :
       LET r == fetch_crossref_info(variant, attempt, st)
       IN /\ status' = st
          /\ pc' = r.pc
          /\ attempt' = IF r.pc = "fetched" THEN 0 ELSE r.attempt
  /\ UNCHANGED <<variant, store, runs, columns, nrows, idx, row, paper_title,
                 crossref_data, batch_data, batch_size, halt, text, key>>

\* requests.get raises (no connection, a broken reply): nothing catches it.
RequestFails ==
  /\ pc = "get"
  /\ Halt("RequestException")
  /\ UNCHANGED <<variant, store, runs, text, key>>

\* for item in items: the next item of the reply is compared.  The reply's
\* items are drawn one at a time, as the loop reaches them.
CompareItem ==
  /\ pc = "items"
  /\ seen < MaxItems
  /\ \E item \in Items :
       IF GetTitle(item) = <<>>
       THEN Halt("IndexError")
       ELSE IF TitleMatches(variant, paper_title, item)
       THEN /\ pc' = "fetched"
            /\ crossref_data' = <<item>>
            /\ Returned
            /\ UNCHANGED <<columns, nrows, idx, row, paper_title, status, nreq, delayed,
                           batch_data, batch_size, halt>>
       ELSE /\ seen' = seen + 1
            /\ UNCHANGED <<pc, columns, nrows, idx, row, paper_title, attempt, status, nreq,
                           delayed, crossref_data, batch_data, batch_size, halt>>
  /\ UNCHANGED <<variant, store, runs, text, key>>

\* The reply has no further item: no exact match, the call returns None.
NoMoreItems ==
  /\ pc = "items"
  /\ pc' = "fetched"
  /\ crossref_data' = <<>>
  /\ Returned
  /\ UNCHANGED <<variant, store, runs, columns, nrows, idx, row, paper_title, status, nreq,
                 delayed, batch_data, batch_size, halt, text, key>>

\* if crossref_data: a dict is true when it has a key.
Truth(found) == found # <<>> /\ found[1].keys # {}

(***************************************************************************)
(* The rest of the loop body in src/dev/oceanpub.py, for the row whose     *)
(* lookup returned: the DOI checks, transform_data, the immediate insert   *)
(* and the batch.  Each of doi_exists and insert_into_postgres opens a     *)
(* connection of its own; down names the one that fails, 0 for none:       *)
(* 1 doi_exists, 2 the immediate insert, 3 the batch insert.               *)
(* The result is [pc, halt, store, batch].                                 *)
(***************************************************************************)
Halted(e, st, batch) == [pc |-> "halted", halt |-> e, store |-> st, batch |-> batch]
Continue(st, batch) == [pc |-> "rows", halt |-> "", store |-> st, batch |-> batch]

process_row_dev(st, batch, size, r, cols, found, down) ==
  IF ~Truth(found) THEN Continue(st, batch)
  ELSE IF GetDOI(found[1]) = "" THEN Continue(st, batch)
  ELSE IF down = 1 THEN Halted("OperationalError", st, batch)
  ELSE IF doi_exists(st, GetDOI(found[1])) THEN Continue(st, batch)
  ELSE LET record == transform_data("dev", r, cols, found[1])
           one == insert_into_postgres_dev(st, <<[keys |-> record.keys, val |-> record.val]>>)
           grown == Append(batch, [keys |-> record.keys, val |-> record.val])
           all == insert_into_postgres_dev(one.store, grown)
       IN IF record.err # "" THEN Halted(record.err, st, batch)
          ELSE IF down = 2 THEN Halted("OperationalError", st, batch)
          ELSE IF one.err # "" THEN Halted(one.err, st, batch)
          ELSE IF Len(grown) < size THEN Continue(one.store, grown)
          ELSE IF down = 3 THEN Halted("OperationalError", one.store, grown)
          ELSE IF all.err # "" THEN Halted(all.err, one.store, grown)
          ELSE Continue(all.store, <<>>)

Persist ==
  /\ pc = "fetched"
  /\ variant = "dev"
  /\ \E down \in 0..3 :
       LET r == process_row_dev(store, batch_data, batch_size, row, columns, crossref_data, down)
       IN /\ store' = r.store
          /\ IF r.pc = "halted"
             THEN Halt(r.halt)
             ELSE /\ pc' = "rows"
                  /\ batch_data' = r.batch
                  /\ RowDone
                  /\ UNCHANGED <<columns, nrows, idx, attempt, seen, delayed, batch_size, halt>>
  /\ UNCHANGED <<variant, runs, text, key>>

(***************************************************************************)
(* The rest of the loop body in src/oceanpub.py: the transformed record is *)
(* appended to processed_data; nothing is written yet.                     *)
(* The result is [err, batch].                                             *)
(***************************************************************************)
process_row_root(batch, r, cols, found) ==
  IF ~Truth(found) THEN [err |-> "", batch |-> batch]
  ELSE LET record == transform_data("root", r, cols, found[1])
       IN [err |-> record.err,
           batch |-> IF record.err # "" THEN batch
                     ELSE Append(batch, [keys |-> record.keys, val |-> record.val])]

Collect ==
  /\ pc = "fetched"
  /\ variant = "root"
  /\ LET r == process_row_root(batch_data, row, columns, crossref_data)
     IN IF r.err # ""
        THEN Halt(r.err)
        ELSE /\ pc' = "rows"
             /\ batch_data' = r.batch
             /\ RowDone
             /\ UNCHANGED <<columns, nrows, idx, attempt, seen, delayed, batch_size, halt>>
  /\ UNCHANGED <<variant, store, runs, text, key>>

(***************************************************************************)
(* After the loop.  dev inserts what is left in batch_data, if anything;   *)
(* root inserts processed_data, all of it, in one statement.  Then         *)
(* process_csv returns.                                                    *)
(***************************************************************************)
finish(v, st, batch, connected) ==
  IF v = "dev" /\ batch = <<>> THEN [err |-> "", store |-> st]
  ELSE IF ~connected THEN [err |-> "OperationalError", store |-> st]
  ELSE IF v = "dev" THEN insert_into_postgres_dev(st, batch)
  ELSE insert_into_postgres_root(st, batch)

Finish ==
  /\ pc = "rows"
  /\ idx = nrows
  /\ \E connected \in BOOLEAN :
       LET r == finish(variant, store, batch_data, connected)
       IN /\ store' = r.store
          /\ IF r.err # "" THEN Halt(r.err) ELSE pc' = "done" /\ halt' = "" /\ RunOver
  /\ UNCHANGED <<variant, runs, text, key>>

Next ==
  \/ StartRun \/ NextRow \/ Sleep \/ Reply \/ RequestFails \/ CompareItem \/ NoMoreItems
  \/ Persist \/ Collect \/ Finish

Spec == Init /\ [][Next]_vars

\* src/dev/oceanpub.py alone, and src/oceanpub.py alone.
DevNext ==
  \/ StartRun \/ NextRow \/ Sleep \/ Reply \/ RequestFails \/ CompareItem \/ NoMoreItems
  \/ Persist \/ Finish

DevInit == Init /\ variant = "dev"

DevSpec == DevInit /\ [][DevNext]_vars

RootNext ==
  \/ StartRun \/ NextRow \/ Reply \/ RequestFails \/ CompareItem \/ NoMoreItems
  \/ Collect \/ Finish

RootInit == Init /\ variant = "root"

RootSpec == RootInit /\ [][RootNext]_vars

(***************************************************************************)
(* fetch_crossref_info on its own: one call for each title and variant.    *)
(* The call keeps running: a sleep ends, a request is answered unless it   *)
(* fails, and the loop over the items of a reply comes to its end unless   *)
(* it is left earlier.                                                     *)
(***************************************************************************)
InitFetch ==
  /\ variant \in Variants
  /\ paper_title \in QueryTitles \cup CandidateTitles
  /\ pc = IF variant = "dev" THEN "sleep" ELSE "get"
  /\ store = {} /\ runs = 1 /\ columns = {} /\ nrows = 1 /\ idx = 1 /\ row = NoRow
  /\ attempt = 0 /\ status = 0 /\ nreq = 0 /\ delayed = FALSE /\ seen = 0
  /\ crossref_data = <<>> /\ batch_data = <<>> /\ batch_size = BATCH_SIZE /\ halt = ""
  /\ text = <<>> /\ key = <<>>

FetchNext == Sleep \/ Reply \/ RequestFails \/ CompareItem \/ NoMoreItems

FetchSpec ==
  InitFetch /\ [][FetchNext]_vars /\ WF_vars(Sleep) /\ WF_vars(Reply) /\ WF_vars(NoMoreItems)

(***************************************************************************)
(* clean_title on its own: applied to a bounded string, and again to its   *)
(* own result.                                                             *)
(***************************************************************************)
TitleAlphabet == {"a", "A", " ", ",", "-", "<", ">"}
Texts == UNION {[1..n -> TitleAlphabet] : n \in 0..MaxLen}

InitTitle ==
  /\ variant \in Variants
  /\ text \in Texts
  /\ key = <<>>
  /\ store = {} /\ runs = 0 /\ pc = "idle" /\ columns = {} /\ nrows = 0 /\ idx = 0
  /\ row = NoRow /\ paper_title = <<>> /\ attempt = 0 /\ status = 0 /\ nreq = 0
  /\ delayed = FALSE /\ seen = 0 /\ crossref_data = <<>> /\ batch_data = <<>> /\ batch_size = BATCH_SIZE
  /\ halt = ""

Normalize ==
  /\ Len(key) < 2
  /\ key' = Append(key, clean_title(variant, IF key = <<>> THEN text ELSE key[Len(key)]))
  /\ UNCHANGED <<variant, store, runs, pc, columns, nrows, idx, row, paper_title, attempt,
                 status, nreq, delayed, seen, crossref_data, batch_data, batch_size, halt, text>>

TitleSpec == InitTitle /\ [][Normalize]_vars

(***************************************************************************)
(* The properties.                                                         *)
(***************************************************************************)

\* C1: whenever fetch_crossref_info has returned, it returned None or an item
\* whose clean_title is exactly the clean_title of the query title; it never
\* returns an item whose normalized title differs.
C1_ExactMatchOnly ==
  (pc = "fetched" /\ crossref_data # <<>>)
    => clean_title(variant, GetTitle(crossref_data[1])[1]) = clean_title(variant, paper_title)

\* An item was returned whose title is not the query title as written: the
\* two agree only after clean_title.
C1_Witness ==
  /\ pc = "fetched"
  /\ crossref_data # <<>>
  /\ GetTitle(crossref_data[1])[1] # paper_title

\* C2: in src/dev/oceanpub.py the store holds at most one row for a DOI, no
\* step changes or removes a stored row, and a row whose match has a DOI that
\* is already stored is skipped: the store and batch_data stay as they are.
C2_OneRowPerDOI ==
  /\ [](variant = "dev" => \A r1, r2 \in store : r1.DOI = r2.DOI => r1 = r2)
  /\ [][variant = "dev" => store \subseteq store']_vars
  /\ [][(/\ variant = "dev"
         /\ pc = "fetched"
         /\ Truth(crossref_data)
         /\ GetDOI(crossref_data[1]) \in StoredDOIs(store))
        => (store' = store /\ (pc' = "halted" \/ batch_data' = batch_data))]_vars

\* In a second run, with a record already inserted in this run and waiting in
\* batch_data, a row has resolved to a DOI that is stored.
C2_Witness ==
  /\ variant = "dev"
  /\ runs = 2
  /\ pc = "fetched"
  /\ Truth(crossref_data)
  /\ GetDOI(crossref_data[1]) \in StoredDOIs(store)
  /\ Len(batch_data) = 1

\* C3: in src/oceanpub.py, when insert_into_postgres has written a record
\* whose DOI was stored already, the stored row has the record's descriptive
\* fields and the flags it had before.
C3_UpsertKeepsFlags ==
  [][(variant = "root" /\ pc = "rows" /\ pc' = "done")
     => \A i \in 1..Len(batch_data) : \A r \in store :
          r.DOI = batch_data[i].val["DOI"]
            => /\ \E q \in store' : q.DOI = r.DOI
               /\ \A q \in store' :
                    q.DOI = r.DOI
                      => /\ q.title = batch_data[i].val["title"]
                         /\ q.firstAuthor = batch_data[i].val["firstAuthor"]
                         /\ q.affiliationTW = batch_data[i].val["affiliationTW"]
                         /\ \A f \in Flags : q[f] = r[f]]_vars

\* A stored row with OR2 set and no institution: OR2 was set by a row of a
\* file with every column, the institution emptied by a later row of a file
\* with the OR1 column alone.
C3_Witness ==
  /\ variant = "root"
  /\ \E r \in store : r.affiliationTW = "" /\ r.OR2

\* C4: a row that resolves to a DOI-bearing exact match is persisted with each
\* flag true exactly when the row has the flag's column with a truthy cell, a
\* flag whose column is absent as false.  In src/dev/oceanpub.py the row is
\* persisted in the step that handles it, unless a store connection fails; in
\* src/oceanpub.py by the insert that ends the run.
C4_FlagsAsInRow ==
  [][/\ (/\ variant = "dev"
         /\ pc = "fetched"
         /\ Truth(crossref_data)
         /\ GetDOI(crossref_data[1]) # ""
         /\ GetDOI(crossref_data[1]) \notin StoredDOIs(store)
         /\ GetAuthor(crossref_data[1]) # <<>>
         /\ halt' # "OperationalError")
        => \E q \in store' :
             /\ q.DOI = GetDOI(crossref_data[1])
             /\ \A f \in Flags :
                  q[f] = (CsvOf(f) \in columns /\ Truthy(row.flag[CsvOf(f)]))
     /\ (variant = "root" /\ pc = "rows" /\ pc' = "done")
        => \A i \in 1..Len(batch_data) :
             batch_data[i].val["DOI"] \notin StoredDOIs(store)
               => \E q \in store' :
                    /\ q.DOI = batch_data[i].val["DOI"]
                    /\ \A f \in Flags :
                         q[f] = (f \in DOMAIN batch_data[i].val /\ batch_data[i].val[f])]_vars

\* C5: a call of fetch_crossref_info issues at most max_retries requests; a
\* request after the first follows a 503 reply; a reply that is neither 200
\* nor 503 ends the call with None; so does the 503 reply to the last
\* request allowed; and every call ends.
C5_BoundedRetries ==
  /\ [](/\ nreq <= max_retries
        /\ (pc \in {"sleep", "get"} /\ nreq > 0) => status = 503
        /\ (status \notin {0, 200, 503}) => (pc = "fetched" /\ crossref_data = <<>>)
        /\ (status = 503 /\ nreq = max_retries) => (pc = "fetched" /\ crossref_data = <<>>))
  /\ (pc \in {"sleep", "get", "items"}) ~> (pc \in {"fetched", "halted"})

\* A call has returned None after max_retries requests, the last answered 503.
C5_Witness ==
  /\ pc = "fetched"
  /\ nreq = max_retries
  /\ status = 503
  /\ crossref_data = <<>>

\* C6: every error is row-scoped: while a row is being resolved or
\* transformed, nothing but a store-connection failure ends the run.
C6_RowScopedErrors ==
  [][(pc \in {"sleep", "get", "items", "fetched"} /\ pc' = "halted")
     => halt' = "OperationalError"]_vars

\* C7: no record with a missing or empty DOI is ever persisted.
C7_StoredDOINonEmpty == \A r \in store : r.DOI # ""

\* C8: clean_title is idempotent: applied to its own result it returns it.
C8_Idempotent == Len(key) = 2 => key[2] = key[1]

\* C9: when the catalog request for a row is about to be issued, the record
\* of every earlier row of the run is in the store.
C9_PersistedBeforeNextRequest ==
  pc = "get" => \A i \in 1..Len(batch_data) : batch_data[i].val["DOI"] \in StoredDOIs(store)

\* C10: every catalog request is immediately preceded by the rate-limit
\* delay: when a request is about to be issued, time.sleep(RATE_LIMIT) has run
\* since the request before it.
C10_DelayBeforeRequest == pc = "get" => delayed

====
